---- MODULE Spec2Model ----
(***************************************************************************)
(* Model of the scrape orchestration of vfm-used-car-finder:               *)
(*   - the crawl of main.py (scrape_yad2_from_filtered_url) and of         *)
(*     web_scrapper.py (scrape_yad2_listings / scrape_and_save),           *)
(*   - the progress file protocol (update_progress / read_progress),       *)
(*   - the orchestrator of app.py (run_scraper_subprocess) with its child  *)
(*     process scrape_runner.py.                                           *)
(* Texts are sequences of tokens (a token is one character or one fixed    *)
(* phrase), so that strip() and replace() are computed, not assumed.       *)
(***************************************************************************)
EXTENDS Integers, Sequences, FiniteSets, TLC

\* ---------------------------------------------------------------- bounds
MaxPages == 2
MaxUrls == 2
MaxRuns == 2
PipeCap == 1

\* ---------------------------------------------------------------- values
\* Python's None, and a str holding the token sequence s.
None == [isNone |-> TRUE]
Str(s) == [isNone |-> FALSE, text |-> s]

\* Python truthiness of an optional str: None and "" are falsy.
Truthy(v) == (~v.isNone) /\ v.text # <<>>

Range(s) == {s[i] : i \in DOMAIN s}

IsSpace(c) == c \in {" ", "\n", "\t"}

RECURSIVE LStrip(_)
LStrip(s) == IF s # <<>> /\ IsSpace(Head(s)) THEN LStrip(Tail(s)) ELSE s

RECURSIVE RStrip(_)
RStrip(s) == IF s # <<>> /\ IsSpace(s[Len(s)]) THEN RStrip(SubSeq(s, 1, Len(s) - 1)) ELSE s

\* str.strip()
Strip(s) == RStrip(LStrip(s))

\* str.replace(tok, '')
Remove(s, tok) == SelectSeq(s, LAMBDA c : c # tok)

\* dict: d[k] = v
Put(d, k, v) == (k :> v) @@ d

\* dict: d.get(k, default)
Get(d, k, default) == IF k \in DOMAIN d THEN d[k] ELSE default

EmptyDict == [x \in {} |-> None]

\* ------------------------------------------------------- label table
hebrew_to_english ==
  [l \in {"קילומטראז׳", "צבע", "בעלות נוכחית", "טסט עד", "בעלות קודמת",
          "תיבת הילוכים", "תאריך עליה לכביש", "סוג מנוע", "מרכב", "מושבים",
          "כוח סוס", "נפח מנוע", "צריכת דלק משולבת", "סוג הנעה", "מערכת הנעה"} |->
     CASE l = "קילומטראז׳" -> "mileage"
       [] l = "צבע" -> "color"
       [] l = "בעלות נוכחית" -> "ownership"
       [] l = "טסט עד" -> "test_date"
       [] l = "בעלות קודמת" -> "previous_ownership"
       [] l = "תיבת הילוכים" -> "transmission"
       [] l = "תאריך עליה לכביש" -> "on_road_date"
       [] l = "סוג מנוע" -> "fuel_type"
       [] l = "מרכב" -> "body_type"
       [] l = "מושבים" -> "seats"
       [] l = "כוח סוס" -> "horsepower"
       [] l = "נפח מנוע" -> "engine_volume"
       [] l = "צריכת דלק משולבת" -> "fuel_consumption"
       [] l = "סוג הנעה" -> "drive_type"
       [] l = "מערכת הנעה" -> "drive_system"]

\* hebrew_to_english.values()
AttributeKeys == {hebrew_to_english[l] : l \in DOMAIN hebrew_to_english}

\* hebrew_to_english.get(label_text), on the stripped inner text of a <dd>
LabelKey(label_text) ==
  IF Len(label_text) = 1 /\ label_text[1] \in DOMAIN hebrew_to_english
  THEN Str(<<hebrew_to_english[label_text[1]]>>)
  ELSE None

\* time.strftime("%d/%m/%Y") on the day of the crawl
ScrapeDate == Str(<<"01/11/2026">>)

\* ------------------------------------------------ rendered listing pages
\* What a listing page shows: the ad-number div, the created-at span, the
\* price span, the h1 (None when the element is missing), the inner texts of
\* the summary items, and the <dd> labels with the inner text of the next
\* sibling (ok = FALSE when reading the sibling raises).
PageFull ==
  [adNumber |-> Str(<<" ", "ad-1", " ">>),
   createdAt |-> Str(<<"פורסם ב", " ", "01/05/25">>),
   price |-> Str(<<"9", ",", "0", "0", "0", " ", "₪">>),
   h1 |-> Str(<<"Mazda 3", " ">>),
   summary |-> << <<"2019">>, <<" ", "2">> >>,
   dd |-> << [label |-> <<"קילומטראז׳">>, ok |-> TRUE, text |-> <<"1", "2", ",", "0", "0", "0", " ">>],
             [label |-> <<"not in the table">>, ok |-> TRUE, text |-> <<"x">>],
             [label |-> <<" ", "צבע", " ">>, ok |-> FALSE, text |-> <<>>] >>]

\* No price span at all.
PageNoPrice ==
  [adNumber |-> Str(<<"ad-2">>),
   createdAt |-> None,
   price |-> None,
   h1 |-> Str(<<"Kia Rio">>),
   summary |-> << <<"2015">> >>,
   dd |-> << [label |-> <<"טסט עד">>, ok |-> TRUE, text |-> <<"03/2026">>] >>]

\* A price span holding only the currency sign: the extracted price is "".
\* "ZWJ" stands for the zero-width joiner U+200D.
PageEmptyPrice ==
  [adNumber |-> Str(<<"ad-1">>),
   createdAt |-> Str(<<"ZWJ", "פורסם ב", "02/05/25">>),
   price |-> Str(<<" ", "₪", " ">>),
   h1 |-> None,
   summary |-> << >>,
   dd |-> << >>]

\* A price span holding words, and neither an ad number nor an h1.
PageTextPrice ==
  [adNumber |-> None,
   createdAt |-> None,
   price |-> Str(<<"n", "/", "a">>),
   h1 |-> None,
   summary |-> << <<"2020">>, <<"1">>, <<"95,000">> >>,
   dd |-> << [label |-> <<"נפח מנוע">>, ok |-> TRUE, text |-> <<"1", ",", "6", "0", "0">>] >>]

ListingPages == {PageFull, PageNoPrice, PageEmptyPrice, PageTextPrice}

\* The page drawn where the orchestration, not the extraction, is checked
\* (a listing that yields no record is there a visit that fails).
ProtocolPages == {PageFull}

\* soup.find(...).text of an optional element, through f
MapText(v, f(_)) == IF v.isNone THEN None ELSE Str(f(v.text))

\* The label/value loop over page.locator("dd").all()
RECURSIVE LabelLoop(_, _)
LabelLoop(details, dd) ==
  IF dd = <<>> THEN details
  ELSE LET label_text == Strip(Head(dd).label)
           key == LabelKey(label_text)
       IN  IF key.isNone THEN LabelLoop(details, Tail(dd))
           ELSE LabelLoop(Put(details, key.text[1],
                              IF Head(dd).ok THEN Str(Strip(Head(dd).text)) ELSE None),
                          Tail(dd))

\* for key in hebrew_to_english.values(): if key not in details: details[key] = None
FillMissing(details) ==
  CHOOSE r \in {[k \in (DOMAIN d) \cup AttributeKeys |->
                  IF k \in DOMAIN d THEN d[k] ELSE None] : d \in {details}} : TRUE

PriceText(t) == Remove(Remove(Strip(t), ","), "₪")

\* main.py: the record built for one rendered listing page
ExtractMain(page, full_url) ==
  LET d1 == Put(EmptyDict, "listing_id", MapText(page.adNumber, Strip))
      d2 == Put(d1, "upload_date",
                MapText(page.createdAt, LAMBDA t : Strip(Remove(t, "פורסם ב"))))
      d3 == Put(d2, "scrape_date", ScrapeDate)
      d4 == Put(d3, "price", MapText(page.price, PriceText))
      d5 == Put(d4, "title", MapText(page.h1, Strip))
      d6 == Put(d5, "year_summary",
                IF Len(page.summary) > 0 THEN Str(Strip(page.summary[1])) ELSE None)
      d7 == Put(d6, "owner_count",
                IF Len(page.summary) > 1 THEN Str(Strip(page.summary[2])) ELSE None)
      d8 == FillMissing(LabelLoop(d7, page.dd))
  IN  Put(d8, "url", Str(full_url))

\* web_scrapper.py: the record built for one rendered listing page
ExtractLegacy(page, full_url) ==
  LET d1 == Put(EmptyDict, "listing_id", MapText(page.adNumber, Strip))
      d2 == Put(d1, "upload_date",
                MapText(page.createdAt,
                        LAMBDA t : Strip(Remove(Remove(t, "ZWJ"), "פורסם ב"))))
      d3 == Put(d2, "scrape_date", ScrapeDate)
      d4 == Put(d3, "price", MapText(page.price, PriceText))
      d5 == IF page.h1.isNone THEN d4 ELSE Put(d4, "title", Str(Strip(page.h1.text)))
      d6 == Put(d5, "year_summary",
                IF Len(page.summary) >= 2 THEN Str(Strip(page.summary[1])) ELSE None)
      d7 == Put(d6, "owner_count",
                IF Len(page.summary) >= 2 THEN Str(Strip(page.summary[2])) ELSE None)
      d8 == FillMissing(LabelLoop(d7, page.dd))
  IN  Put(d8, "url", Str(full_url))

\* ------------------------------------------------------------ DataFrame
\* pd.DataFrame(list of dicts): the columns are the union of the keys, a
\* key a dict lacks is a null cell, the index is the RangeIndex 0..n-1.
DataFrame(records) ==
  LET cols == UNION {DOMAIN records[i] : i \in DOMAIN records}
  IN  [columns |-> cols,
       index |-> [name |-> "RangeIndex", labels |-> <<>>],
       rows |-> [i \in DOMAIN records |-> [c \in cols |-> Get(records[i], c, None)]]]

\* pd.DataFrame()
EmptyFrame == DataFrame(<<>>)

\* df.set_index("listing_id", inplace=True, drop=False); KeyError when the
\* frame has no such column.
SetIndexRaises(df) == "listing_id" \notin df.columns

SetIndex(df) ==
  [df EXCEPT !.index = [name |-> "listing_id",
                        labels |-> [i \in DOMAIN df.rows |-> df.rows[i]["listing_id"]]]]

\* df.to_json(orient="records"): one object per row, the index is not written.
ToJson(df) == [kind |-> "json", items |-> df.rows]

\* json.loads on the text of a stream: it parses when the stream holds one
\* JSON document and nothing else.
JsonLoads(stream) ==
  IF Len(stream) = 1 /\ stream[1].kind = "json"
  THEN [ok |-> TRUE, value |-> stream[1].items]
  ELSE [ok |-> FALSE, value |-> <<>>]

\* ------------------------------------------------------------ URLs
UrlIds == <<"a", "b", "c", "d">>

\* The hrefs the result pages can show (e.href is absolute).
Urls == {<<"https://www.yad2.co.il", "item", UrlIds[i]>> : i \in 1..MaxUrls}

\* f"https://www.yad2.co.il/{url}" if url.startswith("item/") else url
FullUrl(url) == IF url[1] = "item" THEN <<"https://www.yad2.co.il">> \o url ELSE url

Perms(S) == {s \in [1..Cardinality(S) -> S] : Range(s) = S}

\* The hrefs of one result page, in document order.
LinksOf(S) == CHOOSE s \in Perms(S) : TRUE

\* ------------------------------------------------ float arithmetic
\* Python's float is the IEEE 754 double: 53 significant bits, results
\* rounded to nearest, ties to even. A mantissa is a sequence of bits, most
\* significant first; exp is the power of two its first bit stands for.
MantissaBits == 53

\* The bits are handled in limbs of this many, to keep products in range.
LimbBits == 13

Only(S) == CHOOSE v \in S : TRUE

Pow2(k) == 2^k

RECURSIVE ToBits(_)
ToBits(n) == IF n = 0 THEN <<>> ELSE ToBits(n \div 2) \o <<n % 2>>

\* The n low bits of v
LowBits(v, n) == [i \in 1..n |-> (v \div Pow2(n - i)) % 2]

\* The number the first n bits spell
RECURSIVE BitsValue(_, _)
BitsValue(bits, n) == IF n = 0 THEN 0 ELSE 2 * BitsValue(bits, n - 1) + bits[n]

FromBits(bits) == Only({BitsValue(s, Len(s)) : s \in {bits}})

\* bits + 1 on a mantissa that is not all ones
Increment(bits) ==
  LET j == CHOOSE i \in DOMAIN bits :
             bits[i] = 0 /\ \A h \in (i + 1)..Len(bits) : bits[h] = 1
  IN  [i \in DOMAIN bits |-> IF i < j THEN bits[i] ELSE IF i = j THEN 1 ELSE 0]

\* Round a mantissa up or not; a carry out of the top bit moves the exponent.
RoundMantissa(bits, exp, up) ==
  IF ~up THEN [bits |-> bits, exp |-> exp]
  ELSE IF \A i \in DOMAIN bits : bits[i] = 1
       THEN [bits |-> [i \in DOMAIN bits |-> IF i = 1 THEN 1 ELSE 0], exp |-> exp + 1]
       ELSE [bits |-> Increment(bits), exp |-> exp]

\* The remainders of a long division by den: r, then each time twice the
\* remainder before, mod den; n of them, n <= LimbBits.
RECURSIVE Remainders(_, _, _)
Remainders(r, den, n) ==
  IF n = 0 THEN <<>> ELSE <<r>> \o Remainders((2 * r) % den, den, n - 1)

\* The same for any n, a limb's length at a time
RECURSIVE RemainderChunks(_, _, _)
RemainderChunks(r, den, n) ==
  IF n = 0 THEN <<>>
  ELSE Only({c \o RemainderChunks((2 * c[Len(c)]) % den, den, n - Len(c)) :
              c \in {Remainders(r, den, IF n < LimbBits THEN n ELSE LimbBits)}})

\* The first n bits of num / den for den <= num < 2 * den, and twice the
\* remainder they leave.
LongDiv(num, den, n) ==
  Only({[bits |-> [i \in 1..n |-> IF i = 1 THEN 1 ELSE (2 * rems[i - 1]) \div den],
         rem2 |-> 2 * rems[n]] : rems \in {RemainderChunks(num % den, den, n)}})

\* The least k with a * 2^k >= b.
RECURSIVE ShiftUp(_, _)
ShiftUp(a, b) == IF a >= b THEN 0 ELSE 1 + ShiftUp(2 * a, b)

\* The greatest k with b * 2^k <= a (a >= b).
RECURSIVE ShiftDown(_, _)
ShiftDown(a, b) == IF 2 * b > a THEN 0 ELSE 1 + ShiftDown(a, 2 * b)

\* a / b for positive ints: the double nearest to the quotient.
FloatDiv(a, b) ==
  LET down == IF a >= b THEN ShiftDown(a, b) ELSE 0
      up == IF a >= b THEN 0 ELSE ShiftUp(a, b)
  IN  Only({RoundMantissa(q.bits, down - up,
                          q.rem2 > q.den \/ (q.rem2 = q.den /\ q.bits[MantissaBits] = 1)) :
            q \in {[bits |-> d.bits, rem2 |-> d.rem2, den |-> b * Pow2(down)] :
                    d \in {LongDiv(a * Pow2(up), b * Pow2(down), MantissaBits)}}})

\* The limbs of a mantissa are counted from its low end: the number of
\* limbs, the bits of limb j, and the number they spell.
LimbCount(bits) == (Len(bits) + LimbBits - 1) \div LimbBits

LimbLen(bits, j) ==
  IF j * LimbBits <= Len(bits) THEN LimbBits ELSE Len(bits) - (j - 1) * LimbBits

LimbValue(bits, j) ==
  FromBits(SubSeq(bits, Len(bits) - (j - 1) * LimbBits - LimbLen(bits, j) + 1,
                  Len(bits) - (j - 1) * LimbBits))

\* The carry out of limb j of bits * k
RECURSIVE MulCarry(_, _, _)
MulCarry(bits, k, j) ==
  IF j = 0 THEN 0
  ELSE (LimbValue(bits, j) * k + MulCarry(bits, k, j - 1)) \div Pow2(LimbLen(bits, j))

\* Limbs j, j - 1, .., 1 of bits * k
RECURSIVE MulLimbs(_, _, _)
MulLimbs(bits, k, j) ==
  IF j = 0 THEN <<>>
  ELSE Only({LowBits(acc, LimbLen(bits, j)) :
              acc \in {LimbValue(bits, j) * k + MulCarry(bits, k, j - 1)}})
         \o MulLimbs(bits, k, j - 1)

\* bits * k for a small positive k
MulSmall(bits, k) ==
  Only({ToBits(MulCarry(s, k, LimbCount(s))) \o MulLimbs(s, k, LimbCount(s)) : s \in {bits}})

\* The product p of a mantissa, whose first bit stands for 2^exp, as a double
RoundProduct(p, exp) ==
  LET extra == Len(p) - MantissaBits
      low == FromBits(SubSeq(p, MantissaBits + 1, Len(p)))
      roundUp == extra > 0 /\ (low > Pow2(extra - 1)
                               \/ (low = Pow2(extra - 1) /\ p[MantissaBits] = 1))
  IN  Only({RoundMantissa(b, exp, roundUp) : b \in {SubSeq(p, 1, MantissaBits)}})

\* f * k for a double f and a small positive int k, rounded to a double.
FloatMul(f, k) ==
  Only({RoundProduct(p, f.exp + Len(p) - MantissaBits) : p \in {MulSmall(f.bits, k)}})

\* int(f) for a double f >= 0 below 2^31
FloatToInt(f) ==
  IF f.exp < 0 THEN 0 ELSE FromBits(SubSeq(f.bits, 1, f.exp + 1))

\* ------------------------------------- float64 columns of the DataFrame
\* A cell of a float64 column: NaN, an infinity, a zero, or a signed double.
NaN == [kind |-> "nan"]
Inf(neg) == [kind |-> "inf", neg |-> neg]
Zero == [kind |-> "zero"]
Finite(neg, f) == [kind |-> "fin", neg |-> neg, f |-> f]

RECURSIVE GCD(_, _)
GCD(a, b) == IF b = 0 THEN a ELSE GCD(b, a % b)

\* The double of a / b for ints a and b > 0. The quotient of the reduced
\* fraction is the same number, so it rounds to the same double.
IntQuotient(a, b) ==
  IF a = 0 THEN Zero
  ELSE LET m == IF a < 0 THEN -a ELSE a
           g == GCD(m, b)
       IN  Finite(a < 0, FloatDiv(m \div g, b \div g))

\* The double of the int n
FromInt(n) == IntQuotient(n, 1)

\* The remainder that the limbs above limb j of bits leave when divided by k
RECURSIVE DivCarry(_, _, _)
DivCarry(bits, k, j) ==
  IF j > LimbCount(bits) THEN 0
  ELSE (DivCarry(bits, k, j + 1) * Pow2(LimbLen(bits, j)) + LimbValue(bits, j)) % k

\* Limbs j, j - 1, .., 1 of bits \div k
RECURSIVE DivLimbs(_, _, _)
DivLimbs(bits, k, j) ==
  IF j = 0 THEN <<>>
  ELSE Only({LowBits(acc \div k, LimbLen(bits, j)) :
              acc \in {DivCarry(bits, k, j + 1) * Pow2(LimbLen(bits, j))
                         + LimbValue(bits, j)}})
         \o DivLimbs(bits, k, j - 1)

\* A bit sequence without its leading zeros
DropZeros(bits) ==
  LET ones == {i \in DOMAIN bits : bits[i] = 1}
  IN  IF ones = {} THEN <<>>
      ELSE SubSeq(bits, CHOOSE i \in ones : \A h \in ones : i <= h, Len(bits))

\* f / k for a double f > 0 and an int 0 < k < 2^17: the bits of the whole
\* part of mantissa / k, then the bits of what is left over k, rounded to
\* the nearest double, ties to even.
FloatDivInt(f, k) ==
  Only({Only({Only({RoundMantissa(m, f.exp + Len(q) - MantissaBits,
                                  2 * rems[Len(rems)] > k
                                  \/ (2 * rems[Len(rems)] = k /\ m[MantissaBits] = 1)) :
                     m \in {q \o [i \in 1..(MantissaBits - Len(q)) |->
                                     (2 * rems[i]) \div k]}}) :
               rems \in {RemainderChunks(DivCarry(f.bits, k, 1), k,
                                         MantissaBits - Len(q) + 1)}}) :
         q \in {DropZeros(DivLimbs(f.bits, k, LimbCount(f.bits)))}})

\* |f| < |g| for doubles: by the exponent, then by the first bit of the
\* mantissa that differs
MagnitudeLess(f, g) ==
  \/ f.exp < g.exp
  \/ /\ f.exp = g.exp
     /\ f.bits # g.bits
     /\ \E d \in {{i \in 1..MantissaBits : f.bits[i] # g.bits[i]}} :
          \E i \in d : f.bits[i] < g.bits[i] /\ \A h \in d : i <= h

\* x < y on float64 cells; a comparison with NaN is False.
Less(x, y) ==
  CASE x.kind = "nan" \/ y.kind = "nan" -> FALSE
    [] x.kind = "inf" -> x.neg /\ ~(y.kind = "inf" /\ y.neg)
    [] y.kind = "inf" -> ~y.neg
    [] x.kind = "zero" -> y.kind = "fin" /\ ~y.neg
    [] y.kind = "zero" -> x.neg
    [] x.neg # y.neg -> x.neg
    [] x.neg -> MagnitudeLess(y.f, x.f)
    [] OTHER -> MagnitudeLess(x.f, y.f)

\* x <= y on float64 cells
LessEq(x, y) == Less(x, y) \/ (x.kind # "nan" /\ x = y)

\* -1 * x
Negate(x) ==
  CASE x.kind = "inf" -> Inf(~x.neg)
    [] x.kind = "fin" -> Finite(~x.neg, x.f)
    [] OTHER -> x

\* A cell of an int64 column, or of a float64 column that holds whole
\* numbers and NaN
Whole(v) == [kind |-> "int", v |-> v]

\* x / y for a float64 cell x and a cell y that is NaN or a whole number >= 0
Divide(x, y) ==
  CASE x.kind = "nan" \/ y.kind = "nan" -> NaN
    [] y.v = 0 -> IF x.kind = "zero" THEN NaN
                  ELSE IF x.kind = "inf" THEN x ELSE Inf(x.neg)
    [] x.kind = "fin" -> Finite(x.neg, FloatDivInt(x.f, y.v))
    [] OTHER -> x

\* ------------------------------------------------------- progress file
NoFile == [exists |-> FALSE, closed |-> FALSE, pairs |-> <<>>, writer |-> 0]

\* open(path, "w"): the file exists and is empty.
OpenedFile(r) == [exists |-> TRUE, closed |-> FALSE, pairs |-> <<>>, writer |-> r]

\* int((current / total) * 100) if total else 0
ProgressPct(current, total) ==
  IF total # 0
  THEN IF current = 0 THEN 0
       ELSE Only({FloatToInt(g) : g \in {FloatMul(f, 100) : f \in {FloatDiv(current, total)}}})
  ELSE 0

\* progress_data of update_progress
ProgressData(current, total) ==
  [current |-> current, total |-> total, progress_pct |-> ProgressPct(current, total)]

\* json.dump(progress_data, f) and the close of the with block: the whole
\* object reaches the file in one flush. writer is the run that wrote it.
DumpedFile(data, r) ==
  [exists |-> TRUE, closed |-> TRUE,
   pairs |-> << <<"current", data.current>>, <<"total", data.total>>,
                <<"progress_pct", data.progress_pct>> >>,
   writer |-> r]

\* read_progress: None when the file is absent (FileNotFoundError) or is not
\* a complete JSON document (JSONDecodeError), else the dict.
ReadProgressFile(file) ==
  IF (~file.exists) \/ (~file.closed) THEN [isNone |-> TRUE]
  ELSE [isNone |-> FALSE,
        dict |-> [k \in {file.pairs[i][1] : i \in DOMAIN file.pairs} |->
                    (CHOOSE pr \in Range(file.pairs) : pr[1] = k)[2]],
        writer |-> file.writer]

\* The ProgressState a complete progress file holds.
FileState(file) ==
  [current |-> file.pairs[1][2], total |-> file.pairs[2][2],
   progress_pct |-> file.pairs[3][2]]

VARIABLES
  run,            \* number of the current run (0 before the first)
  mode,           \* "idle", "app" (app.py), "main" (main.py), "legacy" (web_scrapper.py)
  progress_json,  \* the file progress.json
  progress_tmp,   \* the file progress.json.tmp
  scrape_log,     \* lines appended to scrape_log.txt
  pc,             \* position of the crawling process
  pages_num,      \* its argument
  page_num,       \* result page being loaded
  listing_urls, total, idx, all_details, progress_data,
  crawl_result,   \* what the crawl function returned, if it returned
  stdout, stderr, returncode,
  opc,            \* position of run_scraper_subprocess
  pct, progress,  \* its locals
  result,         \* the DataFrame it returned
  st_error,       \* messages shown with st.error
  st_text,        \* stream previews shown with st.text
  completed,      \* history: the states whose update_progress completed (of
                  \* earlier runs: the one progress.json still holds)
  written,        \* history: the states this run put at progress.json
  visited,        \* history: the listing URLs this run navigated to
  loaded,         \* history: the result pages this run navigated to
  timeout_page,   \* history: the result page whose wait timed out (0: none)
  extracted,      \* history: the records this run extracted, kept or not
  spawned,        \* history: the children this run started
  stage,          \* position of evaluate_multiple_listings after the crawl
  eval_df,        \* its DataFrame df
  title_ref,      \* what title_aggregates.csv holds
  scraped,        \* history: the frame run_scraper_subprocess returned
  joined,         \* history: the frame that entered the outlier step
  cleaned,        \* history: what preprocess_car_data raised or returned
  st_messages,    \* what st.warning and st.error showed
  top_df          \* the table the page shows

files == <<progress_json, progress_tmp, scrape_log>>
crawler == <<pc, pages_num, page_num, listing_urls, total, idx, all_details,
             progress_data, crawl_result, stdout, stderr, returncode>>
orchestrator == <<opc, pct, progress, result, st_error, st_text>>
history == <<completed, written, visited, loaded, timeout_page, extracted, spawned>>
pipeline == <<stage, eval_df, title_ref, scraped, joined, cleaned, st_messages,
              top_df>>
vars == <<run, mode, files, crawler, orchestrator, history, pipeline>>

NotReturned == [isNone |-> TRUE]

\* No run yet.
NoRun ==
  /\ run = 0
  /\ mode = "idle"
  /\ progress_json = NoFile
  /\ progress_tmp = NoFile
  /\ scrape_log = <<>>
  /\ pc = "none"
  /\ pages_num = 0
  /\ page_num = 0
  /\ listing_urls = <<>>
  /\ total = 0
  /\ idx = 0
  /\ all_details = <<>>
  /\ progress_data = ProgressData(0, 0)
  /\ crawl_result = NotReturned
  /\ stdout = <<>>
  /\ stderr = <<>>
  /\ returncode = 0
  /\ opc = "none"
  /\ pct = 0
  /\ progress = [isNone |-> TRUE]
  /\ result = EmptyFrame
  /\ st_error = <<>>
  /\ st_text = <<>>
  /\ completed = {}
  /\ written = <<>>
  /\ visited = <<>>
  /\ loaded = <<>>
  /\ timeout_page = 0
  /\ extracted = <<>>
  /\ spawned = 0

\* No evaluation after a crawl yet.
NoEvaluation ==
  /\ stage = "idle"
  /\ eval_df = EmptyFrame
  /\ title_ref = [exists |-> FALSE, columns |-> {}, rows |-> <<>>]
  /\ scraped = EmptyFrame
  /\ joined = EmptyFrame
  /\ cleaned = [raised |-> "", frame |-> EmptyFrame]
  /\ st_messages = <<>>
  /\ top_df = EmptyFrame

Init == NoRun /\ NoEvaluation

\* ------------------------------------------------------------- runs
\* A run is over when its processes have ended.
RunOver ==
  \/ mode = "idle"
  \/ mode \in {"main", "legacy"} /\ pc = "exited"
  \/ mode = "app" /\ opc = "returned" /\ pc \in {"none", "exited"}

\* The user starts app.py's evaluation (m = "app"), `python main.py`
\* (m = "main") or `python web_scrapper.py` (m = "legacy"). The files of the
\* working directory are whatever the earlier runs left.
StartRun(m) ==
  /\ run < MaxRuns
  /\ RunOver
  /\ run' = run + 1
  /\ mode' = m
  /\ \E n \in 1..MaxPages : pages_num' = n
  /\ pc' = IF m = "app" THEN "none" ELSE "paginate"
  /\ opc' = IF m = "app" THEN "popen" ELSE "none"
  /\ page_num' = 1
  /\ listing_urls' = <<>>
  /\ total' = 0
  /\ idx' = 0
  /\ all_details' = <<>>
  /\ progress_data' = ProgressData(0, 0)
  /\ crawl_result' = NotReturned
  /\ stdout' = <<>>
  /\ stderr' = <<>>
  /\ returncode' = 0
  /\ pct' = 0
  /\ progress' = [isNone |-> TRUE]
  /\ result' = EmptyFrame
  /\ st_error' = <<>>
  /\ st_text' = <<>>
  /\ written' = <<>>
  /\ visited' = <<>>
  /\ loaded' = <<>>
  /\ timeout_page' = 0
  /\ extracted' = <<>>
  /\ spawned' = 0
  /\ completed' = IF progress_json.exists THEN {FileState(progress_json)} ELSE {}
  /\ UNCHANGED <<files, pipeline>>

\* ---------------------------------------------------- the crawling process
Legacy == mode = "legacy"

\* The child's stderr is a pipe that run_scraper_subprocess reads only in
\* communicate(): a write blocks while the pipe is full and nobody reads.
CanWriteStderr ==
  \/ mode # "app"
  \/ Len(stderr) < PipeCap
  \/ opc \in {"communicate", "returned"}

Line(msg, detail) == [msg |-> msg, detail |-> detail]

\* An exception leaves the crawl function. Under scrape_runner.py and
\* main.py nothing catches it: traceback on stderr, exit status 1.
\* scrape_and_save catches it, logs it and returns.
CrashExit(exc) ==
  /\ pc' = "exited"
  /\ IF Legacy
     THEN /\ scrape_log' = Append(scrape_log, Line("Failed to scrape pages", exc))
          /\ UNCHANGED <<stderr, returncode>>
     ELSE /\ CanWriteStderr
          /\ stderr' = Append(stderr, Line("Traceback", exc))
          /\ returncode' = 1
          /\ UNCHANGED scrape_log

\* One turn of the pagination loop: goto, wait_for_selector finds anchors,
\* their hrefs are appended.
LoadPage ==
  /\ pc = "paginate"
  /\ page_num <= pages_num
  /\ \E S \in (SUBSET Urls) \ {{}} : listing_urls' = listing_urls \o LinksOf(S)
  /\ loaded' = Append(loaded, page_num)
  /\ page_num' = page_num + 1
  /\ UNCHANGED <<pipeline, run, mode, files, pc, pages_num, total, idx, all_details,
                 progress_data, crawl_result, stdout, stderr, returncode,
                 orchestrator, completed, written, visited, timeout_page,
                 extracted, spawned>>

\* A faulty variant of PageTimeout: the timeout is swallowed and the loop goes on
\* with the links of the other pages.
PageTimeoutSkipsPage ==
  /\ pc = "paginate"
  /\ page_num <= pages_num
  /\ loaded' = Append(loaded, page_num)
  /\ timeout_page' = page_num
  /\ page_num' = page_num + 1
  /\ UNCHANGED <<pipeline, run, mode, files, pc, pages_num, listing_urls, total, idx,
                 all_details, progress_data, crawl_result, stdout, stderr,
                 returncode, orchestrator, completed, written, visited,
                 extracted, spawned>>

\* wait_for_selector("a[href^='item/']", timeout=30000) raises.
PageTimeout ==
  /\ pc = "paginate"
  /\ page_num <= pages_num
  /\ loaded' = Append(loaded, page_num)
  /\ timeout_page' = page_num
  /\ CrashExit("TimeoutError")
  /\ UNCHANGED <<pipeline, run, mode, progress_json, progress_tmp, pages_num, page_num,
                 listing_urls, total, idx, all_details, progress_data,
                 crawl_result, stdout, orchestrator, completed, written, visited,
                 extracted, spawned>>

NextListingPc == IF Legacy THEN "visit" ELSE "update"

\* listing_urls = list(set(listing_urls)); total = len(listing_urls);
\* all_details = []. The order of a set is any order.
Dedup ==
  /\ pc = "paginate"
  /\ page_num > pages_num
  /\ \E order \in Perms(Range(listing_urls)) :
       /\ listing_urls' = order
       /\ total' = Len(order)
       /\ pc' = IF Len(order) = 0 THEN "finish" ELSE NextListingPc
  /\ all_details' = <<>>
  /\ idx' = 0
  /\ UNCHANGED <<pipeline, run, mode, files, pages_num, page_num, progress_data,
                 crawl_result, stdout, stderr, returncode, orchestrator, history>>

\* A faulty variant of UpdateOpen: file_path itself is opened for writing before the
\* temporary file is.
UpdateOpenInPlace ==
  /\ pc = "update"
  /\ progress_data' = ProgressData(idx + 1, total)
  /\ progress_json' = OpenedFile(run)
  /\ progress_tmp' = OpenedFile(run)
  /\ pc' = "dump"
  /\ UNCHANGED <<pipeline, run, mode, scrape_log, pages_num, page_num,
                 listing_urls, total, idx, all_details, crawl_result, stdout,
                 stderr, returncode, orchestrator, history>>

\* update_progress(current=idx + 1, total=total): progress_data is built
\* and progress.json.tmp is opened for writing.
UpdateOpen ==
  /\ pc = "update"
  /\ progress_data' = ProgressData(idx + 1, total)
  /\ progress_tmp' = OpenedFile(run)
  /\ pc' = "dump"
  /\ UNCHANGED <<pipeline, run, mode, progress_json, scrape_log, pages_num, page_num,
                 listing_urls, total, idx, all_details, crawl_result, stdout,
                 stderr, returncode, orchestrator, history>>

\* json.dump and the end of the with block.
UpdateDump ==
  /\ pc = "dump"
  /\ progress_tmp' = DumpedFile(progress_data, run)
  /\ pc' = "replace"
  /\ UNCHANGED <<pipeline, run, mode, progress_json, scrape_log, pages_num, page_num,
                 listing_urls, total, idx, all_details, progress_data,
                 crawl_result, stdout, stderr, returncode, orchestrator, history>>

\* os.replace(tmp_path, file_path)
UpdateReplace ==
  /\ pc = "replace"
  /\ progress_json' = progress_tmp
  /\ progress_tmp' = NoFile
  /\ completed' = completed \cup {progress_data}
  /\ written' = Append(written, progress_data)
  /\ pc' = "visit"
  /\ UNCHANGED <<pipeline, run, mode, scrape_log, pages_num, page_num, listing_urls,
                 total, idx, all_details, progress_data, crawl_result, stdout,
                 stderr, returncode, orchestrator, visited, loaded, timeout_page,
                 extracted, spawned>>

\* os.replace raises (on Windows: PermissionError while the reader has
\* progress.json open); the except branch prints to stderr.
UpdateFails ==
  /\ pc = "replace"
  /\ opc = "read"
  /\ progress_json.exists
  /\ CanWriteStderr
  /\ stderr' = Append(stderr, Line("Failed to update progress", "PermissionError"))
  /\ pc' = "visit"
  /\ UNCHANGED <<pipeline, run, mode, files, pages_num, page_num, listing_urls, total,
                 idx, all_details, progress_data, crawl_result, stdout,
                 returncode, orchestrator, history>>

AfterVisitPc == IF idx + 1 < total THEN NextListingPc ELSE "finish"

\* if details.get("price"): all_details.append(details)   (main.py)
\* all_details.append(details)                             (web_scrapper.py)
Keep(details) == Legacy \/ Truthy(details["price"])

\* The try block of one listing runs to its end on the rendered page.
VisitListing(page) ==
  /\ pc = "visit"
  /\ LET full_url == FullUrl(listing_urls[idx + 1])
         details == IF Legacy THEN ExtractLegacy(page, full_url)
                    ELSE ExtractMain(page, full_url)
     IN  /\ all_details' = IF Keep(details) THEN Append(all_details, details)
                           ELSE all_details
         /\ visited' = Append(visited, full_url)
         /\ extracted' = Append(extracted, details)
  /\ idx' = idx + 1
  /\ pc' = AfterVisitPc
  /\ UNCHANGED <<pipeline, run, mode, files, pages_num, page_num, listing_urls, total,
                 progress_data, crawl_result, stdout, stderr, returncode,
                 orchestrator, completed, written, loaded, timeout_page, spawned>>

\* goto or wait_for_selector("dd") raises: the except branch logs the URL
\* (stderr in main.py, scrape_log.txt in web_scrapper.py).
VisitFails ==
  /\ pc = "visit"
  /\ LET full_url == FullUrl(listing_urls[idx + 1])
     IN  /\ visited' = Append(visited, full_url)
         /\ IF Legacy
            THEN /\ scrape_log' = Append(scrape_log, Line("Failed to process", "listing"))
                 /\ UNCHANGED stderr
            ELSE /\ CanWriteStderr
                 /\ stderr' = Append(stderr, Line("Failed to scrape", "listing"))
                 /\ UNCHANGED scrape_log
  /\ idx' = idx + 1
  /\ pc' = AfterVisitPc
  /\ UNCHANGED <<pipeline, run, mode, progress_json, progress_tmp, pages_num, page_num,
                 listing_urls, total, all_details, progress_data, crawl_result,
                 stdout, returncode, orchestrator, completed, written, loaded,
                 timeout_page, extracted, spawned>>

\* goto or wait_for_selector("dd") raises while the stderr pipe is full: the
\* print of the except branch (main.py:170) does not return.
VisitFailsPipeFull ==
  /\ pc = "visit"
  /\ ~Legacy
  /\ ~CanWriteStderr
  /\ visited' = Append(visited, FullUrl(listing_urls[idx + 1]))
  /\ pc' = "print"
  /\ UNCHANGED <<pipeline, run, mode, files, pages_num, page_num, listing_urls, total,
                 idx, all_details, progress_data, crawl_result, stdout, stderr,
                 returncode, orchestrator, completed, written, loaded,
                 timeout_page, extracted, spawned>>

\* The blocked print returns once the parent reads the pipe (communicate()).
PrintReturns ==
  /\ pc = "print"
  /\ CanWriteStderr
  /\ stderr' = Append(stderr, Line("Failed to scrape", "listing"))
  /\ idx' = idx + 1
  /\ pc' = AfterVisitPc
  /\ UNCHANGED <<pipeline, run, mode, files, pages_num, page_num, listing_urls, total,
                 all_details, progress_data, crawl_result, stdout, returncode,
                 orchestrator, history>>

\* Text on the child's stdout that is not scrape_runner's final print.
Banners == {<<>>, <<[kind |-> "text", items |-> <<>>]>>}

\* browser.close(); df = pd.DataFrame(all_details); df.set_index(...);
\* return df. scrape_runner.py prints df.to_json(orient="records") and
\* exits; scrape_and_save writes the CSV and logs it.
Finish ==
  /\ pc = "finish"
  /\ LET df == DataFrame(all_details)
     IN  IF SetIndexRaises(df)
         THEN /\ CrashExit("KeyError")
              /\ UNCHANGED <<crawl_result, stdout>>
         ELSE /\ pc' = "exited"
              /\ crawl_result' = [isNone |-> FALSE, frame |-> SetIndex(df)]
              /\ returncode' = 0
              /\ stdout' \in IF mode = "app"
                             THEN {b \o <<ToJson(SetIndex(df))>> : b \in Banners}
                             ELSE {stdout}
              /\ scrape_log' = IF Legacy
                               THEN Append(scrape_log, Line("Saved pages", "csv"))
                               ELSE scrape_log
              /\ UNCHANGED stderr
  /\ UNCHANGED <<pipeline, run, mode, progress_json, progress_tmp, pages_num, page_num,
                 listing_urls, total, idx, all_details, progress_data,
                 orchestrator, history>>

\* ------------------------------------------------ run_scraper_subprocess
\* subprocess.Popen([...], stdout=PIPE, stderr=PIPE); pct = 0
PopenStarts ==
  /\ opc = "popen"
  /\ pc' = "paginate"
  /\ opc' = "loop"
  /\ pct' = 0
  /\ spawned' = spawned + 1
  /\ UNCHANGED <<pipeline, run, mode, files, pages_num, page_num, listing_urls, total,
                 idx, all_details, progress_data, crawl_result, stdout, stderr,
                 returncode, progress, result, st_error, st_text, completed,
                 written, visited, loaded, timeout_page, extracted>>

\* except Exception as e: st.error(...); return pd.DataFrame()
Unexpected ==
  /\ st_error' = Append(st_error, "Unexpected error")
  /\ result' = EmptyFrame
  /\ opc' = "returned"

\* Popen raises (no `python` on the PATH): no child.
PopenRaises ==
  /\ opc = "popen"
  /\ Unexpected
  /\ UNCHANGED <<pipeline, run, mode, files, crawler, pct, progress, st_text, history>>

\* while process.poll() is None and pct < 100
LoopTest ==
  /\ opc = "loop"
  /\ opc' = IF pc # "exited" /\ pct < 100 THEN "read" ELSE "exists"
  /\ UNCHANGED <<pipeline, run, mode, files, crawler, pct, progress, result, st_error,
                 st_text, history>>

\* progress = read_progress(); if progress: pct = progress.get(...); sleep
ReadProgress ==
  /\ opc = "read"
  /\ LET p == ReadProgressFile(progress_json)
     IN  /\ progress' = p
         /\ pct' = IF (~p.isNone) /\ DOMAIN p.dict # {}
                   THEN Get(p.dict, "progress_pct", 0)
                   ELSE pct
  /\ opc' = "loop"
  /\ UNCHANGED <<pipeline, run, mode, files, crawler, result, st_error, st_text, history>>

\* open() in read_progress raises an OSError that read_progress does not
\* catch (on Windows: PermissionError while the child replaces the file).
ReadRaises ==
  /\ opc = "read"
  /\ pc = "replace"
  /\ progress_json.exists
  /\ Unexpected
  /\ UNCHANGED <<pipeline, run, mode, files, crawler, pct, progress, st_text, history>>

\* if os.path.exists("progress.json"):
CleanupExists ==
  /\ opc = "exists"
  /\ opc' = IF progress_json.exists THEN "remove" ELSE "communicate"
  /\ UNCHANGED <<pipeline, run, mode, files, crawler, pct, progress, result, st_error,
                 st_text, history>>

\* os.remove("progress.json")
CleanupRemove ==
  /\ opc = "remove"
  /\ progress_json' = NoFile
  /\ opc' = "communicate"
  /\ UNCHANGED <<pipeline, run, mode, progress_tmp, scrape_log, crawler, pct, progress,
                 result, st_error, st_text, history>>

PreviewLen == 500

\* stream[:500] (the model's streams are sequences of lines, not characters)
Preview(stream) == SubSeq(stream, 1, IF Len(stream) < PreviewLen THEN Len(stream) ELSE PreviewLen)

\* A faulty variant of Communicate: a failed child is reported as an empty result
\* without a message, and its output is never parsed.
CommunicateSilent ==
  /\ opc = "communicate"
  /\ pc = "exited"
  /\ result' = EmptyFrame
  /\ opc' = "returned"
  /\ UNCHANGED <<pipeline, run, mode, files, crawler, pct, progress, st_error, st_text,
                 history>>

\* process.communicate() returns once the child has ended; then the exit
\* status and the output decide what run returns.
Communicate ==
  /\ opc = "communicate"
  /\ pc = "exited"
  /\ IF returncode # 0
     THEN /\ st_error' = Append(st_error, "Scraper subprocess failed.")
          /\ st_text' = Append(st_text, Preview(stderr))
          /\ result' = EmptyFrame
     ELSE LET listings == JsonLoads(stdout)
          IN  IF listings.ok
              THEN /\ result' = DataFrame(listings.value)
                   /\ UNCHANGED <<st_error, st_text>>
              ELSE /\ st_error' = Append(st_error, "Could not decode output from scraper.")
                   /\ st_text' = Append(st_text, Preview(stdout))
                   /\ result' = EmptyFrame
  /\ opc' = "returned"
  /\ UNCHANGED <<pipeline, run, mode, files, crawler, pct, progress, history>>

\* ------------------------------------------------- preprocess_car_data
Digits == {"0", "1", "2", "3", "4", "5", "6", "7", "8", "9"}

DigitValue(c) ==
  CASE c = "0" -> 0 [] c = "1" -> 1 [] c = "2" -> 2 [] c = "3" -> 3 [] c = "4" -> 4
    [] c = "5" -> 5 [] c = "6" -> 6 [] c = "7" -> 7 [] c = "8" -> 8 [] c = "9" -> 9

\* int(s) for a string of digits
RECURSIVE DigitsValue(_)
DigitsValue(s) ==
  IF s = <<>> THEN 0
  ELSE 10 * DigitsValue(SubSeq(s, 1, Len(s) - 1)) + DigitValue(s[Len(s)])

IsNumber(s, lens) == Len(s) \in lens /\ \A i \in DOMAIN s : s[i] \in Digits

\* s.split(sep)
RECURSIVE Split(_, _)
Split(s, sep) ==
  IF sep \notin Range(s) THEN <<s>>
  ELSE LET i == CHOOSE n \in DOMAIN s : s[n] = sep /\ \A h \in 1..(n - 1) : s[h] # sep
       IN  <<SubSeq(s, 1, i - 1)>> \o Split(SubSeq(s, i + 1, Len(s)), sep)

\* A sequence given by a rule, as the list of its values
List(s) == s \o <<>>

\* The rows of a frame at the positions in keep, in their order.
TakeRows(df, keep) ==
  LET at == SelectSeq([i \in DOMAIN df.rows |-> i], LAMBDA i : i \in keep)
  IN  [df EXCEPT !.rows = List([n \in DOMAIN at |-> df.rows[at[n]]])]

\* df[c] = cells
SetColumn(df, c, cells) ==
  [columns |-> df.columns \cup {c},
   index |-> df.index,
   rows |-> List([i \in DOMAIN df.rows |-> Put(df.rows[i], c, cells[i])])]

\* Step 0: df.drop_duplicates(subset='listing_id'): the first row of every
\* listing_id stays; null ids count as equal.
DropDuplicates(df) ==
  TakeRows(df, {i \in DOMAIN df.rows :
                 \A j \in 1..(i - 1) : df.rows[j]["listing_id"] # df.rows[i]["listing_id"]})

\* astype(str).str.replace(r'[^\d.]', '', regex=True): str(None) is "None"
PriceDigits(v) ==
  SelectSeq(IF v.isNone THEN <<"N", "o", "n", "e">> ELSE v.text,
            LAMBDA c : c \in Digits \cup {"."})

\* pd.to_numeric(s, errors='coerce') on a string of digits and dots (a
\* fraction, where there is one, is all zeros in the prices drawn here)
ToNumeric(s) ==
  LET dots == {i \in DOMAIN s : s[i] = "."}
      digits == Remove(s, ".")
  IN  IF digits = <<>> \/ Cardinality(dots) > 1 THEN NaN
      ELSE IF dots = {} THEN Whole(DigitsValue(s))
      ELSE Whole(DigitsValue(SubSeq(s, 1, (CHOOSE i \in dots : TRUE) - 1)))

\* Step 1: the price column becomes numeric; rows without a number go.
CleanPrice(df) ==
  LET numeric == SetColumn(df, "price",
                           [i \in DOMAIN df.rows |-> ToNumeric(PriceDigits(df.rows[i]["price"]))])
  IN  TakeRows(numeric, {i \in DOMAIN numeric.rows : numeric.rows[i]["price"].kind # "nan"})

NaT == [nat |-> TRUE]
Timestamp(y, m, d) == [nat |-> FALSE, year |-> y, month |-> m, day |-> d]

DaysInMonth(y, m) ==
  IF m = 2 THEN (IF y % 4 = 0 /\ (y % 100 # 0 \/ y % 400 = 0) THEN 29 ELSE 28)
  ELSE IF m \in {4, 6, 9, 11} THEN 30 ELSE 31

\* pd.to_datetime(v, format='%d/%m/%y', errors='coerce')
ParseUploadDate(v) ==
  IF v.isNone THEN NaT
  ELSE LET p == Split(v.text, "/")
       IN  IF Len(p) = 3 /\ IsNumber(p[1], {1, 2}) /\ IsNumber(p[2], {1, 2})
              /\ IsNumber(p[3], {2})
           THEN LET d == DigitsValue(p[1])
                    m == DigitsValue(p[2])
                    y == IF DigitsValue(p[3]) < 69 THEN 2000 + DigitsValue(p[3])
                         ELSE 1900 + DigitsValue(p[3])
                IN  IF m \in 1..12 /\ d \in 1..DaysInMonth(y, m)
                    THEN Timestamp(y, m, d) ELSE NaT
           ELSE NaT

\* pd.to_datetime(v, errors='coerce') on the site's "mm/yyyy" and on text
\* that is no date
ParseTestDate(v) ==
  IF v.isNone THEN NaT
  ELSE LET p == Split(v.text, "/")
       IN  IF Len(p) = 2 /\ IsNumber(p[1], {1, 2}) /\ IsNumber(p[2], {4})
              /\ DigitsValue(p[1]) \in 1..12
           THEN Timestamp(DigitsValue(p[2]), DigitsValue(p[1]), 1)
           ELSE NaT

\* Step 3: the two date columns are parsed.
ParseDates(df) ==
  SetColumn(SetColumn(df, "upload_date",
                      [i \in DOMAIN df.rows |-> ParseUploadDate(df.rows[i]["upload_date"])]),
            "test_date",
            [i \in DOMAIN df.rows |-> ParseTestDate(df.rows[i]["test_date"])])

\* A variant of ClipLower that leaves the column as computed.
ClipNothing(months) == months

\* Series.clip(lower=0) on one cell
ClipLower(months) == IF months < 0 THEN 0 ELSE months

\* Step 7 on one row: NaN where a date is NaT
MonthsToTest(row) ==
  IF row["test_date"].nat \/ row["upload_date"].nat THEN NaN
  ELSE Whole(ClipLower((row["test_date"].year - row["upload_date"].year) * 12
                       + (row["test_date"].month - row["upload_date"].month)))

\* df.merge(title_ref, on="title", how="left"): every row once per entry of
\* its title, or once with NaN in the reference's columns.
RECURSIVE MergeRows(_, _, _)
MergeRows(rows, ref, cols) ==
  IF rows = <<>> THEN <<>>
  ELSE LET r == Head(rows)
           entries == SelectSeq(ref.rows, LAMBDA t : t["title"] = r["title"])
           merged == IF entries = <<>>
                     THEN <<r @@ [c \in cols |-> NaN]>>
                     ELSE [k \in DOMAIN entries |-> r @@ entries[k]]
       IN  merged \o MergeRows(Tail(rows), ref, cols)

Merge(df, ref) ==
  [df EXCEPT !.columns = df.columns \cup ref.columns,
             !.rows = MergeRows(df.rows, ref, df.columns \cup ref.columns)]

\* df.dropna(subset=[c])
DropNa(df, c) == TakeRows(df, {i \in DOMAIN df.rows : df.rows[i][c].kind # "nan"})

\* Step 8: the try block, and the except branch that leaves df as it was.
JoinTitles(df, ref) ==
  IF ref.exists THEN DropNa(Merge(df, ref), "avg_price_by_title") ELSE df

\* ratio = df['avg_price_by_title'] / df[price_col] on one row
PriceRatio(row) ==
  IF row["price"].v = 0
  THEN (IF row["avg_price_by_title"].v = 0 THEN NaN ELSE Inf(FALSE))
  ELSE IntQuotient(row["avg_price_by_title"].v, row["price"].v)

ratio_thresh == 10

\* ratio_thresh and 1 / ratio_thresh as doubles
UpperRatio == FromInt(ratio_thresh)
LowerRatio == IntQuotient(1, ratio_thresh)

\* A variant of InBand that keeps the two ends of the band.
InBandClosed(ratio) == LessEq(ratio, UpperRatio) /\ LessEq(LowerRatio, ratio)

\* mask = (ratio < ratio_thresh) & (ratio > (1 / ratio_thresh))
InBand(ratio) == Less(ratio, UpperRatio) /\ Less(LowerRatio, ratio)

drop_price_outliers_by_title(df) ==
  TakeRows(df, {i \in DOMAIN df.rows : InBand(PriceRatio(df.rows[i]))})

\* The frame after step 8 (steps 2, 4, 5 and 6 add columns that no later
\* step of this model reads).
JoinedFrame(df, ref) ==
  LET dated == ParseDates(CleanPrice(DropDuplicates(df)))
  IN  JoinTitles(SetColumn(dated, "months_to_test",
                           [i \in DOMAIN dated.rows |-> MonthsToTest(dated.rows[i])]),
                 ref)

\* preprocess_car_data(df): the exception it raises ("" for none) and the
\* frame it returns.
preprocess_car_data(df, ref) ==
  IF "listing_id" \notin df.columns
  THEN [raised |-> "KeyError", frame |-> EmptyFrame]
  ELSE Only({IF "avg_price_by_title" \notin j.columns
             THEN [raised |-> "ValueError", frame |-> EmptyFrame]
             ELSE [raised |-> "", frame |-> drop_price_outliers_by_title(j)] :
             j \in {JoinedFrame(df, ref)}})

\* ------------------------------------- predict_prices and the features
\* What the model may predict for a listing (the fitted model is not part of
\* the sources: any of these for any row).
PredictedPrices == {100000, 50000}

\* price_diff_pct = 100 * (price - predicted_price) / predicted_price
PriceDiffPct(row) ==
  IntQuotient(100 * (row["price"].v - row["predicted_price"].v), row["predicted_price"].v)

\* add_price_diff_features(df)
add_price_diff_features(df) ==
  LET with_pct == SetColumn(df, "price_diff_pct",
                       [i \in DOMAIN df.rows |-> PriceDiffPct(df.rows[i])])
  IN  SetColumn(with_pct, "price_diff_vs_error",
                [i \in DOMAIN with_pct.rows |->
                   IF "std_error_pct" \in with_pct.columns
                   THEN Divide(with_pct.rows[i]["price_diff_pct"], with_pct.rows[i]["std_error_pct"])
                   ELSE None])

\* pd.isnull(cell)
IsNull(cell) == cell = None \/ cell = NaN

\* 1 and -1 as doubles
One == FromInt(1)
MinusOne == Negate(One)

\* A variant of label_recommendation whose middle band is open.
label_recommendation_open(row) ==
  LET v == row["price_diff_vs_error"]
  IN  IF IsNull(v) THEN "Not enough data"
      ELSE IF LessEq(v, MinusOne) THEN "Good deal"
      ELSE IF Less(MinusOne, v) /\ Less(v, One) THEN "Fair price"
      ELSE "Overpriced"

\* label_recommendation(row); the emoji at the head of each label is left out.
label_recommendation(row) ==
  LET v == row["price_diff_vs_error"]
  IN  IF IsNull(v) THEN "Not enough data"
      ELSE IF Less(v, MinusOne) THEN "Good deal"
      ELSE IF LessEq(MinusOne, v) /\ LessEq(v, One) THEN "Fair price"
      ELSE "Overpriced"

\* -1 * df["price_diff_vs_error"] on one cell: on the object column of None
\* the product is taken on the cells that are not null, the others are NaN.
VfmScore(cell) == IF IsNull(cell) THEN NaN ELSE Negate(cell)

\* The orders in which a sort may put the rows at the positions in left:
\* first any row that no row of left must precede, then the others.
RECURSIVE SortOrders(_, _)
SortOrders(precedes, left) ==
  IF left = {} THEN {<<>>}
  ELSE UNION {{<<i>> \o s : s \in SortOrders(precedes, left \ {i})} :
               i \in {k \in left : \A j \in left : <<j, k>> \notin precedes}}

\* sort_values(by="VFM Score", ascending=False): a row of a higher score
\* stands before a row of a lower one, rows of one score in any order
\* (quicksort), and the rows without a score last, in the order they had.
SortValues(df) ==
  LET null == {i \in DOMAIN df.rows : IsNull(df.rows[i]["VFM Score"])}
      precedes == {ji \in (DOMAIN df.rows) \X (DOMAIN df.rows) :
                     \/ ji[1] \notin null /\ ji[2] \in null
                     \/ ji[1] \in null /\ ji[2] \in null /\ ji[1] < ji[2]
                     \/ Less(df.rows[ji[2]]["VFM Score"], df.rows[ji[1]]["VFM Score"])}
  IN  {[df EXCEPT !.rows = List([n \in DOMAIN df.rows |-> df.rows[p[n]]])] :
         p \in SortOrders(precedes, DOMAIN df.rows)}

\* ------------------------------------------- evaluate_multiple_listings
\* The records run_scraper_subprocess may return: listings of two titles,
\* two of them with one listing_id and two without any, prices at, inside
\* and outside the outlier band, a price of 0 and a price without digits,
\* upload dates and test dates in and out of their formats.
ScrapedRecords ==
  {[listing_id |-> Str(<<"ad-1">>), title |-> Str(<<"Mazda 3">>),
    price |-> Str(<<"8", "5", "0", "0", "0">>),
    upload_date |-> Str(<<"0", "1", "/", "0", "5", "/", "2", "5">>),
    test_date |-> Str(<<"0", "8", "/", "2", "0", "2", "5">>)],
   [listing_id |-> Str(<<"ad-2">>), title |-> Str(<<"Mazda 3">>),
    price |-> Str(<<"1", "1", "5", "0", "0", "0">>),
    upload_date |-> Str(<<"0", "1", "/", "0", "5", "/", "2", "5">>),
    test_date |-> Str(<<"0", "2", "/", "2", "0", "2", "5">>)],
   [listing_id |-> Str(<<"ad-1">>), title |-> Str(<<"Kia Rio">>),
    price |-> Str(<<"8", "5", "0", "0", "0">>),
    upload_date |-> Str(<<"1", "5", "/", "1", "2", "/", "2", "4">>),
    test_date |-> Str(<<"0", "1", "/", "2", "0", "2", "6">>)],
   [listing_id |-> None, title |-> Str(<<"Mazda 3">>),
    price |-> Str(<<"1", "0", "0", "0", "0">>),
    upload_date |-> None,
    test_date |-> Str(<<"0", "5", "/", "2", "0", "2", "5">>)],
   [listing_id |-> None, title |-> Str(<<"Mazda 3">>),
    price |-> Str(<<"1", "0", "0", "0", "0", "0", "0">>),
    upload_date |-> Str(<<"0", "1", "/", "0", "5", "/", "2", "5">>),
    test_date |-> None],
   [listing_id |-> Str(<<"ad-4">>), title |-> Str(<<"Mazda 3">>),
    price |-> Str(<<"5", "0", "0", "0">>),
    upload_date |-> Str(<<"3", "1", "/", "0", "2", "/", "2", "5">>),
    test_date |-> Str(<<"n", "/", "a">>)],
   [listing_id |-> Str(<<"ad-5">>), title |-> Str(<<"Mazda 3">>),
    price |-> Str(<<"5", "0", "0", "0", "0">>),
    upload_date |-> Str(<<"1", "/", "5", "/", "2", "5">>),
    test_date |-> Str(<<"5", "/", "2", "0", "2", "5">>)],
   [listing_id |-> Str(<<"ad-6">>), title |-> Str(<<"Mazda 3">>),
    price |-> Str(<<"0">>),
    upload_date |-> Str(<<"0", "1", "/", "0", "5", "/", "2", "5">>),
    test_date |-> Str(<<"0", "4", "/", "2", "0", "2", "4">>)],
   [listing_id |-> Str(<<"ad-7">>), title |-> Str(<<"Mazda 3">>),
    price |-> Str(<<"n", "/", "a">>),
    upload_date |-> Str(<<"0", "1", "/", "0", "5", "/", "2", "5">>),
    test_date |-> Str(<<"0", "8", "/", "2", "0", "2", "5">>)],
   [listing_id |-> Str(<<"ad-8">>), title |-> Str(<<"Mazda 3">>),
    price |-> Str(<<"1", "0", "0", "0", "1">>),
    upload_date |-> Str(<<"0", "1", "/", "0", "5", "/", "2", "5">>),
    test_date |-> Str(<<"0", "8", "/", "2", "0", "2", "5">>)],
   [listing_id |-> Str(<<"ad-9">>), title |-> Str(<<"Mazda 3">>),
    price |-> Str(<<"9", "9", "9", "9", "9", "9">>),
    upload_date |-> Str(<<"0", "1", "/", "0", "5", "/", "2", "5">>),
    test_date |-> Str(<<"0", "8", "/", "2", "0", "2", "5">>)]}

\* The most rows of a scraped frame.
MaxRows == 2

\* The frames run_scraper_subprocess may return: up to MaxRows of the
\* records, each at most once, in any order.
ScrapedFrames ==
  {DataFrame(records) :
     records \in UNION {{s \in [1..n -> ScrapedRecords] :
                           \A a, b \in 1..n : a # b => s[a] # s[b]} : n \in 0..MaxRows}}

TitleRow(t, avg, err) ==
  [title |-> Str(<<t>>), avg_price_by_title |-> avg, std_error_pct |-> err]

\* title_aggregates.csv: not readable at its path; one title; two titles, one
\* of them on two lines, with and without an error estimate; no
\* std_error_pct column.
TitleRefs ==
  {[exists |-> FALSE, columns |-> {}, rows |-> <<>>],
   [exists |-> TRUE, columns |-> {"title", "avg_price_by_title", "std_error_pct"},
    rows |-> <<TitleRow("Mazda 3", Whole(100000), Whole(10))>>],
   [exists |-> TRUE, columns |-> {"title", "avg_price_by_title", "std_error_pct"},
    rows |-> <<TitleRow("Mazda 3", Whole(100000), Whole(15)),
               TitleRow("Kia Rio", Whole(100000), Whole(0)),
               TitleRow("Mazda 3", Whole(100000), NaN)>>],
   [exists |-> TRUE, columns |-> {"title", "avg_price_by_title"},
    rows |-> <<[title |-> Str(<<"Mazda 3">>), avg_price_by_title |-> Whole(100000)]>>]}

\* run_scraper_subprocess has returned its frame; the reference file is
\* what it is.
InitEvaluation ==
  /\ NoRun
  /\ stage = "scraped"
  /\ scraped \in ScrapedFrames
  /\ eval_df = scraped
  /\ title_ref \in TitleRefs
  /\ joined = EmptyFrame
  /\ cleaned = [raised |-> "", frame |-> EmptyFrame]
  /\ st_messages = <<>>
  /\ top_df = EmptyFrame

\* except Exception as e: st.error(...); return pd.DataFrame()
EvaluationFails(exc) ==
  /\ st_messages' = Append(st_messages, [kind |-> "error", text |-> exc])
  /\ eval_df' = EmptyFrame
  /\ stage' = "returned"

\* df = preprocess_car_data(df)
Preprocess ==
  /\ stage = "scraped"
  /\ \E r \in {preprocess_car_data(eval_df, title_ref)} :
       /\ cleaned' = r
       /\ joined' = IF r.raised = "KeyError" THEN joined
                    ELSE JoinedFrame(eval_df, title_ref)
       /\ IF r.raised # ""
          THEN EvaluationFails(r.raised)
          ELSE /\ eval_df' = r.frame
               /\ stage' = "cleaned"
               /\ UNCHANGED st_messages
  /\ UNCHANGED <<run, mode, files, crawler, orchestrator, history, scraped,
                 title_ref, top_df>>

\* df = predict_prices(df): a price for every row. On a frame without rows
\* the fitted preprocessor decides whether transform raises.
predict_prices(df) ==
  {SetColumn(df, "predicted_price", [i \in DOMAIN df.rows |-> Whole(prices[i])]) :
     prices \in [DOMAIN df.rows -> PredictedPrices]}

\* The frame with its two last columns
Labelled(df) ==
  Only({SetColumn(labelled, "VFM Score",
                  [i \in DOMAIN labelled.rows |->
                     VfmScore(labelled.rows[i]["price_diff_vs_error"])]) :
         labelled \in {SetColumn(df, "Recommendation",
                                 [i \in DOMAIN df.rows |-> label_recommendation(df.rows[i])])}})

\* predict_prices, add_price_diff_features, then: if df.empty the warning
\* and pd.DataFrame(); otherwise the two columns are added and df is
\* returned.
Score ==
  /\ stage = "cleaned"
  /\ \/ /\ eval_df.rows = <<>>
        /\ EvaluationFails("ValueError")
     \/ /\ \E predicted \in predict_prices(eval_df) :
             IF predicted.rows = <<>>
             THEN /\ st_messages' = Append(st_messages,
                                           [kind |-> "warning", text |-> "No valid listings"])
                  /\ eval_df' = EmptyFrame
             ELSE /\ eval_df' = Labelled(add_price_diff_features(predicted))
                  /\ UNCHANGED st_messages
        /\ stage' = "returned"
  /\ UNCHANGED <<run, mode, files, crawler, orchestrator, history, scraped,
                 title_ref, joined, cleaned, top_df>>

\* A variant of ShowResults that keeps the order of the returned frame.
ShowResultsUnsorted ==
  /\ stage = "returned"
  /\ top_df' = eval_df
  /\ stage' = "shown"
  /\ UNCHANGED <<run, mode, files, crawler, orchestrator, history, scraped,
                 eval_df, title_ref, joined, cleaned, st_messages>>

\* if not results_df.empty: top_df = results_df.sort_values(...); the table
\* is shown.
ShowResults ==
  /\ stage = "returned"
  /\ top_df' \in IF eval_df.rows = <<>> THEN {top_df} ELSE SortValues(eval_df)
  /\ stage' = "shown"
  /\ UNCHANGED <<run, mode, files, crawler, orchestrator, history, scraped,
                 eval_df, title_ref, joined, cleaned, st_messages>>

\* ------------------------------------------------------- specifications
Crawl(pages) ==
  \/ LoadPage
  \/ PageTimeout
  \/ Dedup
  \/ UpdateOpen
  \/ UpdateDump
  \/ UpdateReplace
  \/ \E page \in pages : VisitListing(page)
  \/ VisitFails
  \/ Finish

Orchestrate ==
  \/ PopenStarts
  \/ PopenRaises
  \/ LoopTest
  \/ ReadProgress
  \/ ReadRaises
  \/ CleanupExists
  \/ CleanupRemove
  \/ Communicate

\* The crawling process of app.py runs and main.py runs: its steps, and
\* what the stderr pipe and the reader of progress.json add to them.
Crawler ==
  \/ Crawl(ProtocolPages)
  \/ UpdateFails
  \/ VisitFailsPipeFull
  \/ PrintReturns

\* app.py runs and main.py runs, in any sequence.
Next ==
  \/ StartRun("app")
  \/ StartRun("main")
  \/ Crawler
  \/ Orchestrate

Spec == Init /\ [][Next]_vars

\* The child and the orchestrator are each scheduled again and again: a
\* process that can take a step does not wait forever.
Fairness == WF_vars(Crawler) /\ WF_vars(Orchestrate)

FairSpec == Init /\ [][Next]_vars /\ Fairness

\* The two crawlers alone, on every kind of listing page.
NextCrawl ==
  \/ StartRun("main")
  \/ StartRun("legacy")
  \/ Crawl(ListingPages)

SpecCrawl == Init /\ [][NextCrawl]_vars

\* The evaluation of app.py after the crawl, on every scraped frame.
NextEvaluation ==
  \/ Preprocess
  \/ Score
  \/ ShowResults

SpecEvaluation == InitEvaluation /\ [][NextEvaluation]_vars

\* ---------------------------------------------------------------- claims
ProgressKeys == {"current", "total", "progress_pct"}

\* C1: progress.json is at every moment either absent or a complete JSON
\* object with the three keys that equals the state of a completed
\* update_progress, and what read_progress returned is None or such a state:
\* a half-written state is never at the canonical path nor read from it.
C1_AtomicProgress ==
  /\ progress_json.exists =>
       /\ progress_json.closed
       /\ {progress_json.pairs[i][1] : i \in DOMAIN progress_json.pairs} = ProgressKeys
       /\ FileState(progress_json) \in completed
  /\ (~progress.isNone) =>
       /\ DOMAIN progress.dict = ProgressKeys
       /\ [k \in ProgressKeys |-> progress.dict[k]] \in
            {[k \in ProgressKeys |-> st[k]] : st \in completed}

\* C1 witness: the reader holds a complete state it read while the child is
\* in the middle of the next write (temporary file opened, still empty).
C1_Witness ==
  /\ mode = "app"
  /\ opc = "loop"
  /\ ~progress.isNone
  /\ progress.writer = run
  /\ pc = "dump"
  /\ progress_tmp.exists /\ ~progress_tmp.closed
  /\ progress_json.exists

\* C2 (the claim as stated): the states a crawl writes start with
\* current = 0, current strictly increases, total is the number of unique
\* URLs in every state, progress_pct = floor(100 * current / total) in every
\* state written or read, and a crawl that visited every listing ends with
\* current = total.
C2_ProgressMonotone ==
  /\ written # <<>> => written[1].current = 0
  /\ \A i \in 1..(Len(written) - 1) : written[i + 1].current > written[i].current
  /\ \A i \in DOMAIN written :
       /\ written[i].total = total
       /\ written[i].progress_pct = (100 * written[i].current) \div written[i].total
  /\ (~progress.isNone) =>
       progress.dict["progress_pct"] =
         (100 * progress.dict["current"]) \div progress.dict["total"]

\* C3 (the claim as stated): what the polling loop of a run reads was
\* written by the child of that run, never by an earlier run.
C3_NoStaleProgress ==
  (mode = "app" /\ ~progress.isNone) => progress.writer = run

\* C4 (the claim as stated): once run_scraper_subprocess has returned,
\* progress.json does not exist (not at the return, and not later through a
\* write of the child).
C4_CleanupOnEveryPath ==
  (mode = "app" /\ opc = "returned") => ~progress_json.exists

\* C5: run returns rows only when the child exited with status 0 and its
\* stdout parsed, and then the rows are those of the frame the crawl
\* returned; after a nonzero exit, or a zero exit with unparseable output, it
\* returns an empty frame and has shown an error; the child is started at
\* most once per run.
C5_ResultByChildOutcome ==
  /\ spawned <= 1
  /\ (mode = "app" /\ opc = "returned") =>
       /\ result.rows # <<>> =>
            /\ pc = "exited"
            /\ returncode = 0
            /\ JsonLoads(stdout).ok
            /\ ~crawl_result.isNone
            /\ result.rows = crawl_result.frame.rows
       /\ (pc = "exited" /\ (returncode # 0 \/ ~JsonLoads(stdout).ok)) =>
            /\ result.rows = <<>>
            /\ st_error # <<>>

\* C5 witness: run has returned the rows of a child that exited with 0.
C5_Witness ==
  /\ mode = "app"
  /\ opc = "returned"
  /\ returncode = 0
  /\ result.rows # <<>>

\* C6 (the claim as stated): a record whose extraction completed is in
\* all_details if and only if its price is not None.
C6_PriceGate ==
  \A i \in DOMAIN extracted :
    (extracted[i] \in Range(all_details)) <=> (~extracted[i]["price"].isNone)

\* The crawl visited its listings (no pagination timeout) and has ended.
CrawlEnded == pc = "exited" /\ timeout_page = 0 /\ idx = total

\* C7 (the claim as stated): when a listing visit failed, every unique URL
\* has still been visited exactly once, the records collected are kept and
\* the crawl returns them.
C7_FailureIsolation ==
  (CrawlEnded /\ Len(extracted) < Len(visited)) =>
    /\ Len(visited) = total
    /\ Range(visited) = {FullUrl(u) : u \in Range(listing_urls)}
    /\ Cardinality(Range(visited)) = total
    /\ ~crawl_result.isNone
    /\ Len(crawl_result.frame.rows) = Len(all_details)

\* C8: after a pagination timeout the crawl has raised: the page that timed
\* out is the last one loaded, no listing was visited, the crawl returned
\* nothing and wrote no output, and under the orchestrator the child's exit
\* status is nonzero and run returns an empty frame.
C8_PaginationTimeoutFatal ==
  timeout_page # 0 =>
    /\ loaded = [i \in 1..timeout_page |-> i]
    /\ visited = <<>>
    /\ pc = "exited"
    /\ crawl_result.isNone
    /\ stdout = <<>>
    /\ returncode # 0
    /\ (mode = "app" /\ opc = "returned") => result.rows = <<>>

\* C8 witness: the second result page timed out under the orchestrator,
\* after the first had given links, and run has returned.
C8_Witness ==
  /\ mode = "app"
  /\ timeout_page = 2
  /\ listing_urls # <<>>
  /\ opc = "returned"
  /\ st_error = <<"Scraper subprocess failed.">>

FixedKeys ==
  {"listing_id", "title", "price", "upload_date", "scrape_date", "year_summary",
   "owner_count", "url"} \cup AttributeKeys

\* C9 (the claim as stated): every record of the frame a crawl returns has
\* every key of the fixed field set.
C9_SchemaUniform ==
  (~crawl_result.isNone) =>
    \A i \in DOMAIN crawl_result.frame.rows :
      FixedKeys \subseteq DOMAIN crawl_result.frame.rows[i]

\* C10 (the claim as stated): a crawl that kept no listing ends normally
\* with an empty record set, and run returns it without an error message.
C10_EmptyIsLegitimate ==
  (CrawlEnded /\ all_details = <<>>) =>
    /\ ~crawl_result.isNone
    /\ returncode = 0
    /\ (mode = "app" /\ opc = "returned") => st_error = <<>>

\* C17 (the claim as stated): the state with current = k is at progress.json
\* only once k listing visits have finished, so what the reader of this run
\* holds never counts more listings than were processed, and progress_pct =
\* 100 is read only when every listing has been processed.
C17_ProgressAfterVisit ==
  /\ written # <<>> => written[Len(written)].current <= Len(visited)
  /\ (mode = "app" /\ ~progress.isNone /\ progress.writer = run) =>
       /\ progress.dict["current"] <= Len(visited)
       /\ progress.dict["progress_pct"] = 100 => Len(visited) = total

\* C12 (the claim as stated, for the crawl): the frame a crawl returns never
\* holds two records with the same listing_id.
C12_UniqueListingId ==
  (~crawl_result.isNone) =>
    \A i, j \in DOMAIN crawl_result.frame.rows :
      i # j => crawl_result.frame.rows[i]["listing_id"] # crawl_result.frame.rows[j]["listing_id"]

\* C18 (the claim as stated): under fair scheduling of the child and the
\* orchestrator, every run of run_scraper_subprocess eventually returns.
C18_RunReturns == (mode = "app" /\ opc = "popen") ~> (opc = "returned")

\* The rows of a frame
Rows(df) == {df.rows[i] : i \in DOMAIN df.rows}

\* The titles title_aggregates.csv has an entry for
RefTitles == {title_ref.rows[i]["title"] : i \in DOMAIN title_ref.rows}

\* C11 (the claim as stated): once preprocess_car_data has run on a frame
\* with rows, it has not raised, whatever the reference holds or lacks; no
\* row of its output has a title without an entry, every row of its output
\* has a non-null avg_price_by_title, and a row whose title has an entry
\* reaches the outlier step.
C11_JoinIsRowLevel ==
  (stage # "scraped" /\ scraped.rows # <<>>) =>
    /\ cleaned.raised = ""
    /\ \A r \in Rows(cleaned.frame) :
         r["title"] \in RefTitles /\ r["avg_price_by_title"].kind # "nan"
    /\ \A r \in Rows(CleanPrice(DropDuplicates(scraped))) :
         r["title"] \in RefTitles => \E t \in Rows(joined) : t["listing_id"] = r["listing_id"]

\* C13: a row that enters the outlier step is in the output of
\* preprocess_car_data exactly when avg_price_by_title < 10 * price and
\* price < 10 * avg_price_by_title; so a ratio of exactly 10 or 1/10 and a
\* price of 0 exclude it.
C13_OutlierBand ==
  (stage # "scraped" /\ cleaned.raised = "") =>
    \A r \in Rows(joined) :
      r \in Rows(cleaned.frame) <=>
        /\ r["avg_price_by_title"].v < 10 * r["price"].v
        /\ r["price"].v < 10 * r["avg_price_by_title"].v

\* C13 happens: a listing priced at a tenth of its title's average entered
\* the outlier step with a listing priced at half of it; the first is out,
\* the second is in.
C13_Witness ==
  /\ stage # "scraped"
  /\ cleaned.raised = ""
  /\ \E r \in Rows(joined) :
       r["avg_price_by_title"].v = 10 * r["price"].v /\ r \notin Rows(cleaned.frame)
  /\ \E r \in Rows(cleaned.frame) : r["avg_price_by_title"].v = 2 * r["price"].v

\* A float64 cell strictly below -1, in the closed interval [-1, 1], and
\* strictly above 1, read off the sign, the exponent and the mantissa.
MagnitudeAboveOne(x) ==
  \/ x.kind = "inf"
  \/ x.kind = "fin" /\ (x.f.exp > 0 \/ (x.f.exp = 0 /\ \E i \in 2..MantissaBits : x.f.bits[i] = 1))

BelowMinusOne(x) == MagnitudeAboveOne(x) /\ x.neg
AboveOne(x) == MagnitudeAboveOne(x) /\ ~x.neg
WithinOne(x) == x.kind \in {"zero", "fin"} /\ ~MagnitudeAboveOne(x)

\* C14: every listing of the returned frame has the one label its
\* price_diff_vs_error gives: null "Not enough data", below -1 "Good deal",
\* in [-1, 1] (both ends) "Fair price", above 1 "Overpriced".
C14_RecommendationBoundaries ==
  "Recommendation" \in eval_df.columns =>
    \A r \in Rows(eval_df) :
      LET v == r["price_diff_vs_error"]
      IN  /\ (v = None \/ v = NaN) <=> r["Recommendation"] = "Not enough data"
          /\ (v # None /\ BelowMinusOne(v)) <=> r["Recommendation"] = "Good deal"
          /\ (v # None /\ WithinOne(v)) <=> r["Recommendation"] = "Fair price"
          /\ (v # None /\ AboveOne(v)) <=> r["Recommendation"] = "Overpriced"

\* C14 happens: the returned frame holds a listing at exactly -1 or exactly
\* 1 labelled "Fair price" and a listing without a value labelled
\* "Not enough data".
C14_Witness ==
  /\ "Recommendation" \in eval_df.columns
  /\ \E r \in Rows(eval_df) :
       /\ r["price_diff_vs_error"] \in {Finite(TRUE, FromInt(1).f), FromInt(1)}
       /\ r["Recommendation"] = "Fair price"
  /\ \E r \in Rows(eval_df) :
       /\ r["price_diff_vs_error"] = NaN
       /\ r["Recommendation"] = "Not enough data"

\* The listing is priced at so many percent of its predicted price, with an
\* error estimate of 10.
PricedAt(r, percent) ==
  /\ "std_error_pct" \in DOMAIN r
  /\ r["std_error_pct"] = Whole(10)
  /\ 100 * r["price"].v = percent * r["predicted_price"].v

\* C15: the VFM Score of every listing is its price_diff_vs_error with the
\* other sign (null for null); the table shown holds the rows of the
\* returned frame, none before a row of a higher score; a listing 15% under
\* its predicted price with std_error_pct = 10 is a "Good deal" and stands
\* before a listing 15% over it, which is "Overpriced".
C15_RankedByVfm ==
  /\ "VFM Score" \in eval_df.columns =>
       \A r \in Rows(eval_df) :
         LET v == r["price_diff_vs_error"]
             score == r["VFM Score"]
         IN  /\ (v = None \/ v = NaN) => score = NaN
             /\ (v # None /\ v.kind = "zero") => score = Zero
             /\ (v # None /\ v.kind = "inf") => score = Inf(~v.neg)
             /\ (v # None /\ v.kind = "fin") => score = Finite(~v.neg, v.f)
             /\ PricedAt(r, 85) => r["Recommendation"] = "Good deal"
             /\ PricedAt(r, 115) => r["Recommendation"] = "Overpriced"
  /\ (stage = "shown" /\ eval_df.rows # <<>>) =>
       /\ Len(top_df.rows) = Len(eval_df.rows)
       /\ Rows(top_df) = Rows(eval_df)
       /\ \A i, j \in DOMAIN top_df.rows :
            /\ Less(top_df.rows[i]["VFM Score"], top_df.rows[j]["VFM Score"]) => j < i
            /\ (PricedAt(top_df.rows[i], 85) /\ PricedAt(top_df.rows[j], 115)) => i < j

\* C15 happens: the returned frame holds the listing 15% over its predicted
\* price first and the listing 15% under it second, and the table shown
\* holds them the other way round.
C15_Witness ==
  /\ stage = "shown"
  /\ Len(eval_df.rows) = 2
  /\ PricedAt(eval_df.rows[1], 115)
  /\ PricedAt(eval_df.rows[2], 85)
  /\ top_df.rows = <<eval_df.rows[2], eval_df.rows[1]>>

\* C16: every row of the output of preprocess_car_data with both dates has
\* months_to_test = max(0, 12 * (difference of the years) + difference of
\* the months), and no row has a negative months_to_test.
C16_MonthsToTestFloor ==
  \A r \in Rows(cleaned.frame) :
    LET months == (r["test_date"].year - r["upload_date"].year) * 12
                  + (r["test_date"].month - r["upload_date"].month)
    IN  /\ (~r["test_date"].nat /\ ~r["upload_date"].nat) =>
             r["months_to_test"] = Whole(IF months > 0 THEN months ELSE 0)
        /\ r["months_to_test"].kind = "int" => r["months_to_test"].v >= 0

\* C16 happens: the output holds a listing whose test date lies 3 months
\* before its upload date, with months_to_test = 0.
C16_Witness ==
  \E r \in Rows(cleaned.frame) :
    /\ ~r["test_date"].nat
    /\ ~r["upload_date"].nat
    /\ (r["test_date"].year - r["upload_date"].year) * 12
       + (r["test_date"].month - r["upload_date"].month) = -3
    /\ r["months_to_test"] = Whole(0)

====
